---------------------------- MODULE Spec2Model ----------------------------
(***************************************************************************)
(* Model of the Halden weather MCP server (src/unnamed/part_000, the four  *)
(* forecast tools, and src/yr-weather/src/index.js, which shares           *)
(* fetchHaldenForecast, braveSearch, formatWeatherIcon, get-current-       *)
(* weather and suggest-activities and adds search-local-info).             *)
(*                                                                         *)
(* Representation of JavaScript values:                                    *)
(*  - a string that the code inspects with includes() is a sequence of     *)
(*    one-character strings; << >> stands for undefined / "" (both falsy); *)
(*  - an optional number (next_1_hours?.details?.precipitation_amount) is  *)
(*    << >> when absent and <<v>> when present;                            *)
(*  - air_temperature (deg C) and wind_speed (m/s) are integers;           *)
(*    precipitation_amount is an integer count of 1/64 mm;                 *)
(*  - entry.time is [wall |-> hours on the timestamp's own clock,          *)
(*    offset |-> its UTC offset in hours]; new Date(time) is the instant   *)
(*    wall - offset, in hours since 00:00 UTC of day 0;                    *)
(*  - a text is the sequence of the elements that join("\n") glues         *)
(*    together, each a record with a msg field and the values printed      *)
(*    into it.                                                             *)
(***************************************************************************)
EXTENDS Integers, Sequences, FiniteSets

VARIABLES
    BRAVE_API_KEY,  \* process.env.BRAVE_API_KEY, read once at module load
    tz,             \* the process's local time zone, hours east of UTC
    scenario,       \* which family of upstream responses the environment delivers
    tool,           \* tool[i]: the tool invocation i runs
    pc,             \* pc[i]: idle, awaitForecast, awaitForecastBody,
                    \* forecastReturned, awaitSearch, awaitSearchBody,
                    \* searchReturned, done, thrown
    fresp,          \* fresp[i]: the forecast endpoint's response delivered to i
    sresp,          \* sresp[i]: the search endpoint's response delivered to i
    fetched,        \* fetched[i]: how fetchHaldenForecast() ended for i
    searched,       \* searched[i]: how braveSearch() ended for i
    locals,         \* locals[i]: suggest-activities' temp, wind, suggestions, searchQuery
    result,         \* result[i]: what the handler returned (or that it threw)
    outstanding,    \* fetch() calls not yet settled: <<i, endpoint>>
    requests        \* requests[i][endpoint]: requests i has sent to the endpoint

vars == <<BRAVE_API_KEY, tz, scenario, tool, pc, fresp, sresp, fetched,
          searched, locals, result, outstanding, requests>>

---------------------------------------------------------------------------
(* Bounds of the model.                                                    *)

MaxInFlight == 2      \* invocations in flight at once (concurrent scenario)
MaxTail == 2          \* entries after the first one (handler scenario)
MaxDayEntries == 4    \* entries of a series (day-grouping scenario)
MaxCondEntries == 5   \* entries of a series (condition-code scenario)
MaxRainEntries == 3   \* entries of a series (precipitation scenario)

Inv == 1..MaxInFlight

RECURSIVE SeqsUpTo(_, _)
SeqsUpTo(S, n) ==
    IF n = 0 THEN {<< >>}
    ELSE LET shorter == SeqsUpTo(S, n - 1)
         IN  shorter \cup {Append(s, x) : s \in {q \in shorter : Len(q) = n - 1}, x \in S}

---------------------------------------------------------------------------
(* JavaScript values.                                                      *)

NULL == [type |-> "null"]

Truthy(s) == s # ""

\* String.prototype.includes on character sequences.
Includes(s, sub) ==
    \E k \in 0..(Len(s) - Len(sub)) : SubSeq(s, k + 1, k + Len(sub)) = sub

\* x?.y > 0 : undefined > 0 is false.
GreaterThanZero(opt) == opt # << >> /\ opt[1] > 0

\* x?.y || 0
OrZero(opt) == IF opt # << >> /\ opt[1] # 0 THEN opt[1] ELSE 0

rain == <<"r", "a", "i", "n">>
snow == <<"s", "n", "o", "w">>
thunder == <<"t", "h", "u", "n", "d", "e", "r">>
fog == <<"f", "o", "g">>
cloudy == <<"c", "l", "o", "u", "d", "y">>
fair == <<"f", "a", "i", "r">>
clear == <<"c", "l", "e", "a", "r">>
rainandthunder == rain \o <<"a", "n", "d">> \o thunder
partlycloudy == <<"p", "a", "r", "t", "l", "y">> \o cloudy

formatWeatherIcon(symbolCode) ==
    IF symbolCode = << >> THEN "sun-behind-cloud"
    ELSE IF Includes(symbolCode, rain) THEN "rain-cloud"
    ELSE IF Includes(symbolCode, snow) THEN "snowflake"
    ELSE IF Includes(symbolCode, thunder) THEN "thunder-cloud"
    ELSE IF Includes(symbolCode, fog) THEN "fog"
    ELSE IF Includes(symbolCode, cloudy) THEN "cloud"
    ELSE IF Includes(symbolCode, fair) THEN "sun-behind-cloud"
    ELSE IF Includes(symbolCode, clear) THEN "sun"
    ELSE "sun-behind-cloud"

\* new Date(entry.time): the instant, in hours since 00:00 UTC of day 0.
Instant(time) == time.wall - time.offset

\* date.toISOString().split("T")[0]: the UTC calendar day (as a day number;
\* the code's key is the string YYYY-MM-DD, never an array index, so a plain
\* object lists such keys in insertion order).
DayKeyOf(time) == Instant(time) \div 24

\* time.getHours(): the hour of day on the process's local clock.
GetHours(time) == (Instant(time) + tz) % 24

\* new Date("YYYY-MM-DD").toLocaleDateString(...): the date string is parsed as
\* 00:00 UTC of that day and printed as a calendar day of the local clock.
DayName(dayKey) == (dayKey * 24 + tz) \div 24

RECURSIVE MathMin(_)
MathMin(s) == IF Len(s) = 1 THEN s[1]
              ELSE LET m == MathMin(Tail(s)) IN IF s[1] < m THEN s[1] ELSE m

RECURSIVE MathMax(_)
MathMax(s) == IF Len(s) = 1 THEN s[1]
              ELSE LET m == MathMax(Tail(s)) IN IF s[1] > m THEN s[1] ELSE m

\* Number.prototype.toFixed(1) of the number m/64, as a count of tenths: the n
\* for which n/10 - m/64 is nearest to zero, the larger n of two equally near.
\* A multiple of 1/64 is a double exactly and so is a sum of a few of them, so
\* the digits do not depend on the order of the additions.
ToFixed1(m) == (10 * m + 32) \div 64


---------------------------------------------------------------------------
(* Results of a function or handler, and the elements of a text.           *)

Returned(v) == [kind |-> "return", value |-> v]
Thrown == [kind |-> "throw", value |-> NULL]
NotCalled == [kind |-> "none", value |-> NULL]

\* return { content: [{ type: "text", text }] }
ReturnText(text) == [kind |-> "return", content |-> <<[type |-> "text", text |-> text]>>]
\* the handler's promise rejects (a TypeError escapes it)
HandlerThrows == [kind |-> "throw", content |-> << >>]
NoResult == [kind |-> "none", content |-> << >>]

Text(msg) == [msg |-> msg]

---------------------------------------------------------------------------
(* fetchHaldenForecast.  A response is [kind |-> "neterr"] (fetch rejects) *)
(* or [kind |-> "http", ok, body]; a body is [type |-> "malformed"] (json()*)
(* rejects), [type |-> "json", hasTimeseries |-> FALSE] (valid JSON with no *)
(* properties.timeseries) or a forecast with its timeseries.               *)

\* The try block: lines 33-43 of part_000.
FetchTryBlock(resp) ==
    IF resp.kind = "neterr" THEN Thrown                  \* await fetch(...) rejects
    ELSE IF ~resp.ok THEN Thrown                         \* throw new Error(...)
    ELSE IF resp.body.type = "malformed" THEN Thrown     \* await response.json() rejects
    ELSE IF ~resp.body.hasTimeseries THEN Thrown         \* data.properties.timeseries.length
    ELSE Returned(resp.body)

fetchHaldenForecast_NoCatch(resp) == FetchTryBlock(resp)

\* try { ... } catch (err) { console.error(...); return null; }
fetchHaldenForecast(resp) ==
    IF FetchTryBlock(resp).kind = "throw" THEN Returned(NULL) ELSE FetchTryBlock(resp)

---------------------------------------------------------------------------
(* braveSearch.  A response is [kind |-> "neterr"] or [kind |-> "http",    *)
(* ok, body]; a body is [type |-> "malformed"], [type |-> "json",          *)
(* hasResults |-> FALSE] (no web.results) or a result set with web.results.*)

braveSearchSends_Always(key) == TRUE

\* if (!BRAVE_API_KEY) { ...; return null; }: whether the call goes on to fetch.
braveSearchSends(key) == Truthy(key)

braveSearch_NoCatch(resp) ==
    IF resp.kind = "neterr" THEN Thrown
    ELSE IF ~resp.ok THEN Returned(NULL)
    ELSE IF resp.body.type = "malformed" THEN Thrown
    ELSE Returned(resp.body)

\* The try/catch of braveSearch, once the request is answered.
braveSearch(resp) ==
    IF resp.kind = "neterr" THEN Returned(NULL)                \* catch: return null
    ELSE IF ~resp.ok THEN Returned(NULL)                       \* if (!response.ok) return null
    ELSE IF resp.body.type = "malformed" THEN Returned(NULL)   \* json() rejects, catch
    ELSE Returned(resp.body)

\* results?.web?.results?.length (0 when there is none)
ResultsLength(results) ==
    IF results = NULL THEN 0
    ELSE IF ~results.hasResults THEN 0
    ELSE Len(results.results)

---------------------------------------------------------------------------
(* get-current-weather, after fetchHaldenForecast() has ended as f.        *)

CurrentWeatherFailure ==
    <<Text("Unable to fetch current weather data from YR API. Please try again later.")>>

CurrentWeatherOutput(current) ==
    << [msg |-> "Current weather in Halden (via YR.no):",
        icon |-> formatWeatherIcon(current.symbol_code)],
       [msg |-> "Temperature: C", n |-> current.air_temperature],
       [msg |-> "Wind: m/s", n |-> current.wind_speed],
       [msg |-> "Humidity: %", n |-> current.relative_humidity],
       [msg |-> "Pressure: hPa", n |-> current.air_pressure_at_sea_level] >>

CurrentWeather(f) ==
    IF f.kind = "throw" THEN HandlerThrows
    ELSE IF f.value = NULL THEN ReturnText(CurrentWeatherFailure)
    \* timeseries[0] is undefined on an empty series: current.data throws
    ELSE IF Len(f.value.timeseries) = 0 THEN HandlerThrows
    ELSE ReturnText(CurrentWeatherOutput(f.value.timeseries[1]))

---------------------------------------------------------------------------
(* get-hourly-forecast.                                                    *)

HourlyCount == 12

ForecastFailure == <<Text("Failed to get forecast data.")>>

\* timeseries.slice(0, 12)
Slice(s, n) == SubSeq(s, 1, IF Len(s) < n THEN Len(s) ELSE n)

HourlyLine(entry) ==
    [msg |-> ":00 C, m/s",
     hour |-> GetHours(entry.time),
     icon |-> formatWeatherIcon(entry.symbol_code),
     temp |-> entry.air_temperature,
     wind |-> entry.wind_speed,
     \* precip > 0 ? `, ${precip}mm rain` : ""
     rain |-> IF OrZero(entry.precipitation_amount) > 0
              THEN <<OrZero(entry.precipitation_amount)>> ELSE << >>]

HourlyOutput(timeseries) ==
    <<Text("Hourly forecast for Halden (next 12 hours):"), Text("")>>
    \o [k \in 1..Len(Slice(timeseries, HourlyCount)) |-> HourlyLine(timeseries[k])]

HourlyForecast(f) ==
    IF f.kind = "throw" THEN HandlerThrows
    ELSE IF f.value = NULL THEN ReturnText(ForecastFailure)
    ELSE ReturnText(HourlyOutput(f.value.timeseries))

---------------------------------------------------------------------------
(* get-3day-forecast.  dailyData is the sequence of the object's entries   *)
(* in insertion order, each [dayKey, temps, conditions, precipitation].    *)

DayCount == 3

Front(s) == SubSeq(s, 1, Len(s) - 1)
Last(s) == s[Len(s)]

HasDay(dailyData, dayKey) == \E k \in 1..Len(dailyData) : dailyData[k].dayKey = dayKey

WithDay_Reset(dailyData, dayKey) ==
    IF HasDay(dailyData, dayKey)
    THEN [k \in 1..Len(dailyData) |->
            IF dailyData[k].dayKey = dayKey
            THEN [dayKey |-> dayKey, temps |-> << >>,
                  conditions |-> << >>, precipitation |-> 0]
            ELSE dailyData[k]]
    ELSE Append(dailyData, [dayKey |-> dayKey, temps |-> << >>,
                            conditions |-> << >>, precipitation |-> 0])

\* if (!dailyData[dayKey]) dailyData[dayKey] = { temps: [], conditions: [], precipitation: 0 }
WithDay(dailyData, dayKey) ==
    IF HasDay(dailyData, dayKey) THEN dailyData
    ELSE Append(dailyData, [dayKey |-> dayKey, temps |-> << >>,
                            conditions |-> << >>, precipitation |-> 0])

\* The pushes and the += of one forEach step, on the day's record.
Accumulate(day, entry) ==
    [dayKey |-> day.dayKey,
     temps |-> Append(day.temps, entry.air_temperature),
     conditions |-> IF entry.symbol_code # << >>
                    THEN Append(day.conditions, entry.symbol_code)
                    ELSE day.conditions,
     precipitation |-> day.precipitation + OrZero(entry.precipitation_amount)]

\* One step of timeseries.forEach.
AddEntry(dailyData, entry) ==
    LET withDay == WithDay(dailyData, DayKeyOf(entry.time))
    IN  [k \in 1..Len(withDay) |->
            IF withDay[k].dayKey = DayKeyOf(entry.time)
            THEN Accumulate(withDay[k], entry) ELSE withDay[k]]

RECURSIVE GroupByDay(_)
GroupByDay(timeseries) ==
    IF timeseries = << >> THEN << >>
    ELSE AddEntry(GroupByDay(Front(timeseries)), Last(timeseries))

\* data.conditions.filter((v) => v === a).length
CountOf(conditions, a) == Cardinality({k \in 1..Len(conditions) : conditions[k] = a})

CompareCounts_Reversed(conditions, a, b) == CountOf(conditions, b) - CountOf(conditions, a)

\* The comparator handed to sort.
CompareCounts(conditions, a, b) == CountOf(conditions, a) - CountOf(conditions, b)

\* Array.prototype.sort is stable and compares the values it read before it
\* writes any back: x goes before the first element that compares greater.
InsertSorted(sorted, x, conditions) ==
    LET greater == {k \in 1..Len(sorted) : CompareCounts(conditions, sorted[k], x) > 0}
        at == IF greater = {} THEN Len(sorted) + 1
              ELSE CHOOSE k \in greater : \A j \in greater : k <= j
    IN  SubSeq(sorted, 1, at - 1) \o <<x>> \o SubSeq(sorted, at, Len(sorted))

RECURSIVE SortPrefix(_, _)
SortPrefix(conditions, n) ==
    IF n = 0 THEN << >>
    ELSE InsertSorted(SortPrefix(conditions, n - 1), conditions[n], conditions)

\* data.conditions.sort(...).pop(): undefined on an empty array.
MostCommon(conditions) ==
    IF conditions = << >> THEN << >>
    ELSE Last(SortPrefix(conditions, Len(conditions)))

\* rain = data.precipitation.toFixed(1); rain > 0
RainShown(precipitation) == ToFixed1(precipitation) > 0

DayLine(day) ==
    [msg |-> ": C - C",
     icon |-> formatWeatherIcon(MostCommon(day.conditions)),
     dayName |-> DayName(day.dayKey),
     minTemp |-> MathMin(day.temps),
     maxTemp |-> MathMax(day.temps),
     \* rain > 0 ? `, ${rain}mm rain` : "", in tenths of a millimetre
     rain |-> IF RainShown(day.precipitation)
              THEN <<ToFixed1(day.precipitation)>> ELSE << >>]

\* Object.entries(dailyData).slice(0, 3).map(...)
Days(timeseries) ==
    LET first == Slice(GroupByDay(timeseries), DayCount)
    IN  [k \in 1..Len(first) |-> DayLine(first[k])]

ThreeDayOutput(timeseries) ==
    <<Text("3-day forecast for Halden:"), Text("")>> \o Days(timeseries)

ThreeDayForecast(f) ==
    IF f.kind = "throw" THEN HandlerThrows
    ELSE IF f.value = NULL THEN ReturnText(ForecastFailure)
    ELSE ReturnText(ThreeDayOutput(f.value.timeseries))

---------------------------------------------------------------------------
(* suggest-activities.                                                     *)

SuggestFailure == <<Text("Unable to get weather data for activity suggestions.")>>

IndoorMessage == Text("Indoor activities recommended")
OutdoorMessage == Text("Great weather for outdoor activities")
ColdMessage == Text("Cold weather - indoor or winter activities")
MildMessage == Text("Mild weather - good for walking or light outdoor activities")
WindWarning == Text("Windy conditions - sheltered activities preferred")
EnableSearchHint ==
    Text("\n\nEnable search with Brave API key for specific venue suggestions")

OutdoorAbove == 15
ColdBelow == 5
WindyAbove == 10

Band_TemperatureFirst(current) ==
    IF current.air_temperature > OutdoorAbove
    THEN [message |-> OutdoorMessage, query |-> "hiking parks outdoor activities"]
    ELSE IF GreaterThanZero(current.precipitation_amount)
    THEN [message |-> IndoorMessage, query |-> "indoor activities museums cafes"]
    ELSE IF current.air_temperature < ColdBelow
    THEN [message |-> ColdMessage, query |-> "winter activities indoor venues"]
    ELSE [message |-> MildMessage, query |-> "walking trails parks cafes"]

\* if (hasRain) ... else if (temp > 15) ... else if (temp < 5) ... else ...
Band(current) ==
    IF GreaterThanZero(current.precipitation_amount)
    THEN [message |-> IndoorMessage, query |-> "indoor activities museums cafes"]
    ELSE IF current.air_temperature > OutdoorAbove
    THEN [message |-> OutdoorMessage, query |-> "hiking parks outdoor activities"]
    ELSE IF current.air_temperature < ColdBelow
    THEN [message |-> ColdMessage, query |-> "winter activities indoor venues"]
    ELSE [message |-> MildMessage, query |-> "walking trails parks cafes"]

\* Lines 270-297: the handler's locals once the band and the wind are decided.
SuggestLocals(current) ==
    [temp |-> current.air_temperature,
     wind |-> current.wind_speed,
     suggestions |-> <<Band(current).message>>
                     \o (IF current.wind_speed > WindyAbove THEN <<WindWarning>> ELSE << >>),
     searchQuery |-> <<"Halden Norway ", Band(current).query>>,
     count |-> 2,
     query |-> ""]

\* "\n\nSuggested places:\n" + results.web.results.map(...).join("\n\n")
SuggestedPlaces(results) ==
    [msg |-> "\n\nSuggested places:\n",
     places |-> [k \in 1..Len(results.results) |->
                    [n |-> k, title |-> results.results[k].title,
                     url |-> results.results[k].url]]]

\* activityResults after braveSearch returned results (the key is set).
ActivityResults(results) ==
    IF ResultsLength(results) # 0 THEN SuggestedPlaces(results) ELSE Text("")

SuggestOutput(l, activityResults) ==
    << [msg |-> "Activity suggestions for Halden (C, m/s wind):",
        temp |-> l.temp, wind |-> l.wind],
       Text("") >>
    \o l.suggestions \o <<activityResults>>

---------------------------------------------------------------------------
(* search-local-info (index.js only).                                      *)

SearchDisabled ==
    <<Text("Search functionality requires Brave API key configuration.")>>

Queries == {"restaurants"}

\* args.query, searchQuery and the count handed to braveSearch (the fields of
\* the other handler's locals are unused here).
SearchLocals(query) ==
    [temp |-> 0, wind |-> 0, suggestions |-> << >>,
     searchQuery |-> <<"Halden Norway ", query>>, count |-> 3, query |-> query]

SearchLocalOutput(l, results) ==
    IF ResultsLength(results) = 0
    THEN <<[msg |-> "No search results found for in Halden. Try different keywords.",
            query |-> l.query]>>
    ELSE << [msg |-> "Local info for in Halden:", query |-> l.query],
            Text(""),
            [msg |-> "formatted",
             places |-> [k \in 1..Len(results.results) |->
                            [n |-> k, title |-> results.results[k].title,
                             url |-> results.results[k].url,
                             description |-> results.results[k].description]]] >>

---------------------------------------------------------------------------
(* The upstream services: the responses the environment may deliver.       *)

NetworkError == [kind |-> "neterr"]
NoResponse == [kind |-> "none"]

\* response.ok is true exactly for the statuses 200..299.
HttpResponse(status, body) ==
    [kind |-> "http", status |-> status, ok |-> status \in 200..299, body |-> body]

\* The body of a response before response.json() has settled (and for good
\* when the code never reads it).
Unread == [type |-> "unread"]

\* if (!response.ok) ... comes before response.json(): whether the function
\* goes on to await the body of the response its fetch() settled with.
ReadsBody(resp) == resp.kind = "http" /\ resp.ok

Malformed == [type |-> "malformed"]
JsonWithoutTimeseries == [type |-> "json", hasTimeseries |-> FALSE]
Forecast(timeseries) ==
    [type |-> "json", hasTimeseries |-> TRUE, timeseries |-> timeseries]
JsonWithoutResults == [type |-> "json", hasResults |-> FALSE]
ResultSet(results) == [type |-> "json", hasResults |-> TRUE, results |-> results]

UTC(h) == [wall |-> h, offset |-> 0]

Entry(time, temp, wind, code, precip) ==
    [time |-> time, air_temperature |-> temp, wind_speed |-> wind,
     relative_humidity |-> 80, air_pressure_at_sea_level |-> 1013,
     symbol_code |-> code, precipitation_amount |-> precip]

FirstEntries ==
    {Entry(UTC(10), t, w, c, p) :
        t \in {4, 5, 6, 15, 16}, w \in {10, 11},
        c \in {<< >>, rain}, p \in {<< >>, <<0>>, <<10>>}}

TailEntries ==
    {Entry(UTC(11), 7, 3, partlycloudy, <<20>>), Entry(UTC(34), -2, 12, << >>, << >>)}

HandlerSeries ==
    {<< >>} \cup {<<e>> \o t : e \in FirstEntries, t \in SeqsUpTo(TailEntries, MaxTail)}

DaySeries ==
    SeqsUpTo({Entry(time, t, 3, << >>, << >>) :
                time \in {UTC(0), UTC(24), [wall |-> 25, offset |-> 2], UTC(48), UTC(72)},
                t \in {-3, 8}},
             MaxDayEntries)

ConditionSeries ==
    SeqsUpTo({Entry(UTC(1), 10, 3, c, << >>) : c \in {<< >>, rain, fog, cloudy}}
             \cup {Entry(UTC(25), 10, 3, snow, << >>)},
             MaxCondEntries)

RainSeries ==
    SeqsUpTo({Entry(UTC(h), 10, 3, << >>, p) :
                h \in {1, 25}, p \in {<< >>, <<0>>, <<1>>, <<2>>, <<16>>}},
             MaxRainEntries)

ConcurrentSeries ==
    { << >>,
      <<Entry(UTC(10), 18, 12, rainandthunder, <<10>>)>>,
      <<Entry(UTC(23), 3, 4, fog, << >>), Entry(UTC(24), 9, 4, fog, <<4>>)>> }

\* What await fetch(...) of the forecast endpoint may settle with.
ForecastSettles(sc) ==
    CASE sc = "handlers" ->
            {NetworkError, HttpResponse(500, Unread), HttpResponse(404, Unread),
             HttpResponse(200, Unread)}
      [] sc = "concurrent" -> {NetworkError, HttpResponse(200, Unread)}
      [] OTHER -> {HttpResponse(200, Unread)}

\* What await response.json() of a forecast response may settle with.
ForecastBodies(sc) ==
    CASE sc = "handlers" ->
            {Malformed, JsonWithoutTimeseries} \cup {Forecast(ts) : ts \in HandlerSeries}
      [] sc = "days" -> {Forecast(ts) : ts \in DaySeries}
      [] sc = "conditions" -> {Forecast(ts) : ts \in ConditionSeries}
      [] sc = "rain" -> {Forecast(ts) : ts \in RainSeries}
      [] sc = "concurrent" -> {Forecast(ts) : ts \in ConcurrentSeries}

Place1 == [title |-> "Fredriksten", url |-> "https://a.example", description |-> "fortress"]
Place2 == [title |-> "Cafe", url |-> "https://b.example", description |-> "coffee"]

\* What await fetch(...) of the search endpoint may settle with.
SearchSettles(sc) ==
    IF sc = "concurrent"
    THEN {NetworkError, HttpResponse(200, Unread)}
    ELSE {NetworkError, HttpResponse(500, Unread), HttpResponse(429, Unread),
          HttpResponse(200, Unread)}

\* What await response.json() of a search response may settle with.
SearchBodies(sc) ==
    IF sc = "concurrent"
    THEN {ResultSet(<< >>), ResultSet(<<Place1, Place2>>)}
    ELSE {Malformed, JsonWithoutResults, ResultSet(<< >>), ResultSet(<<Place1>>),
          ResultSet(<<Place2, Place1>>)}

ForecastTools ==
    {"get-current-weather", "get-hourly-forecast", "get-3day-forecast", "suggest-activities"}

\* "braveSearch" stands for a call of the function on its own.
ToolsOf(sc) ==
    CASE sc = "handlers" -> ForecastTools \cup {"search-local-info", "braveSearch"}
      [] sc = "concurrent" -> ForecastTools \cup {"search-local-info"}
      [] OTHER -> {"get-3day-forecast"}

Clients(sc) == IF sc = "concurrent" THEN Inv ELSE {1}

\* "" stands for an unset (or empty) BRAVE_API_KEY.
Keys(sc) == IF sc \in {"handlers", "concurrent"} THEN {"", "BSA-key"} ELSE {""}
TimeZones(sc) == IF sc \in {"handlers", "concurrent"} THEN {-5, 1} ELSE {1}

---------------------------------------------------------------------------
(* The handlers as steps between awaits.                                   *)

\* The locals of a handler that has not assigned them.
NoLocals ==
    [temp |-> 0, wind |-> 0, suggestions |-> << >>,
     searchQuery |-> << >>, count |-> 0, query |-> ""]

PcOf(r) == IF r.kind = "throw" THEN "thrown" ELSE "done"

InitialRequests_Parallel(t, key) ==
    IF t = "suggest-activities" /\ Truthy(key) THEN {"forecast", "search"}
    ELSE IF t \in ForecastTools THEN {"forecast"}
    ELSE IF braveSearchSends(key) THEN {"search"} ELSE {}

\* The requests a handler sends before its first await: the forecast tools
\* await fetchHaldenForecast() first; search-local-info returns at once
\* without a key and otherwise awaits braveSearch(), as a direct call does.
InitialRequests(t, key) ==
    IF t \in ForecastTools THEN {"forecast"}
    ELSE IF t = "search-local-info" /\ ~Truthy(key) THEN {}
    ELSE IF braveSearchSends(key) THEN {"search"} ELSE {}

\* What the handler returns once braveSearch() has ended as srch.
AfterSearch(t, l, srch) ==
    IF t = "braveSearch" THEN NoResult
    ELSE IF srch.kind = "throw" THEN HandlerThrows
    ELSE IF t = "suggest-activities"
    THEN ReturnText(SuggestOutput(l, ActivityResults(srch.value)))
    ELSE ReturnText(SearchLocalOutput(l, srch.value))

\* suggest-activities from the end of fetchHaldenForecast() to its next await
\* or its return: the result (NoResult while it awaits the search), its
\* locals, and whether it sends the search request.
SuggestAfterForecast(f, key) ==
    IF f.kind = "throw"
    THEN [result |-> HandlerThrows, locals |-> NoLocals, searched |-> NotCalled, send |-> FALSE]
    ELSE IF f.value = NULL
    THEN [result |-> ReturnText(SuggestFailure), locals |-> NoLocals,
          searched |-> NotCalled, send |-> FALSE]
    \* timeseries[0] is undefined on an empty series: current.data throws
    ELSE IF Len(f.value.timeseries) = 0
    THEN [result |-> HandlerThrows, locals |-> NoLocals, searched |-> NotCalled, send |-> FALSE]
    ELSE LET l == SuggestLocals(f.value.timeseries[1])
         IN  IF ~Truthy(key)
             THEN [result |-> ReturnText(SuggestOutput(l, EnableSearchHint)),
                   locals |-> l, searched |-> NotCalled, send |-> FALSE]
             ELSE IF braveSearchSends(key)
             THEN [result |-> NoResult, locals |-> l, searched |-> NotCalled, send |-> TRUE]
             ELSE [result |-> AfterSearch("suggest-activities", l, Returned(NULL)),
                   locals |-> l, searched |-> Returned(NULL), send |-> FALSE]

\* A handler without a second await, from the end of fetchHaldenForecast().
AfterForecast(t, f, key) ==
    IF t = "suggest-activities" THEN SuggestAfterForecast(f, key)
    ELSE [result |-> CASE t = "get-current-weather" -> CurrentWeather(f)
                       [] t = "get-hourly-forecast" -> HourlyForecast(f)
                       [] t = "get-3day-forecast" -> ThreeDayForecast(f),
          locals |-> NoLocals, searched |-> NotCalled, send |-> FALSE]

StoreLocals_ModuleLevel(ls, i, l) == [j \in DOMAIN ls |-> l]

\* The handler's locals (temp, wind, suggestions, searchQuery) are declared
\* inside the handler: each invocation has its own.
StoreLocals(ls, i, l) == [ls EXCEPT ![i] = l]

Send(i, endpoints) ==
    /\ outstanding' = outstanding \cup {<<i, e>> : e \in endpoints}
    /\ requests' = [requests EXCEPT ![i] =
                      [e \in {"forecast", "search"} |->
                          IF e \in endpoints THEN @[e] + 1 ELSE @[e]]]

InitFor(sc) ==
    /\ BRAVE_API_KEY \in Keys(sc)
    /\ tz \in TimeZones(sc)
    /\ scenario = sc
    /\ tool = [i \in Inv |-> "none"]
    /\ pc = [i \in Inv |-> "idle"]
    /\ fresp = [i \in Inv |-> NoResponse]
    /\ sresp = [i \in Inv |-> NoResponse]
    /\ fetched = [i \in Inv |-> NotCalled]
    /\ searched = [i \in Inv |-> NotCalled]
    /\ locals = [i \in Inv |-> NoLocals]
    /\ result = [i \in Inv |-> NoResult]
    /\ outstanding = {}
    /\ requests = [i \in Inv |-> [e \in {"forecast", "search"} |-> 0]]

\* The host calls tool t: the handler runs to its first await or to its return.
Invoke(i) ==
    /\ i \in Clients(scenario)
    /\ pc[i] = "idle"
    /\ \E t \in ToolsOf(scenario), q \in Queries :
        LET sends == InitialRequests(t, BRAVE_API_KEY)
            l == IF t \in ForecastTools THEN NoLocals ELSE SearchLocals(q)
            \* no request sent: search-local-info without a key returns its
            \* notice, braveSearch without a key returns null
            r == IF t = "search-local-info" /\ ~Truthy(BRAVE_API_KEY)
                 THEN ReturnText(SearchDisabled)
                 ELSE AfterSearch(t, l, Returned(NULL))
        IN  /\ tool' = [tool EXCEPT ![i] = t]
            /\ locals' = StoreLocals(locals, i, l)
            /\ Send(i, sends)
            /\ pc' = [pc EXCEPT ![i] =
                        IF "forecast" \in sends THEN "awaitForecast"
                        ELSE IF "search" \in sends THEN "awaitSearch"
                        ELSE PcOf(r)]
            /\ result' = [result EXCEPT ![i] = IF sends = {} THEN r ELSE NoResult]
            /\ searched' = [searched EXCEPT ![i] =
                              IF sends = {} /\ t = "braveSearch"
                              THEN Returned(NULL) ELSE NotCalled]
    /\ UNCHANGED <<BRAVE_API_KEY, tz, scenario, fresp, sresp, fetched>>

\* await fetch(YR_API_URL, ...) settles and fetchHaldenForecast() goes on: on
\* a rejection or a status that is not ok it ends (catch, return null); on an
\* ok status it calls response.json() and is suspended again.  The handler
\* that awaits it does not run in this step.
ForecastResponds(i) ==
    /\ pc[i] = "awaitForecast"
    /\ <<i, "forecast">> \in outstanding
    /\ \E resp \in ForecastSettles(scenario) :
        /\ fresp' = [fresp EXCEPT ![i] = resp]
        /\ outstanding' = outstanding \ {<<i, "forecast">>}
        /\ IF ReadsBody(resp)
           THEN /\ pc' = [pc EXCEPT ![i] = "awaitForecastBody"]
                /\ UNCHANGED fetched
           ELSE /\ pc' = [pc EXCEPT ![i] = "forecastReturned"]
                /\ fetched' = [fetched EXCEPT ![i] = fetchHaldenForecast(resp)]
    /\ UNCHANGED <<BRAVE_API_KEY, tz, scenario, tool, sresp, searched, locals,
                   result, requests>>

\* await response.json() of the forecast response settles, with the parsed
\* body or a rejection, and fetchHaldenForecast() ends; the handler that
\* awaits it does not run in this step.
ForecastBody(i) ==
    /\ pc[i] = "awaitForecastBody"
    /\ \E body \in ForecastBodies(scenario) :
        \E resp \in {[fresp[i] EXCEPT !.body = body]} :
            /\ fresp' = [fresp EXCEPT ![i] = resp]
            /\ fetched' = [fetched EXCEPT ![i] = fetchHaldenForecast(resp)]
    /\ pc' = [pc EXCEPT ![i] = "forecastReturned"]
    /\ UNCHANGED <<BRAVE_API_KEY, tz, scenario, tool, sresp, searched, locals,
                   result, outstanding, requests>>

\* The handler resumes from `await fetchHaldenForecast()` with what the
\* function gave and runs to its next await (suggest-activities calling
\* braveSearch, which calls fetch) or to its return.
ForecastResumes(i) ==
    /\ pc[i] = "forecastReturned"
    /\ \E step \in {AfterForecast(tool[i], fetched[i], BRAVE_API_KEY)} :
        /\ locals' = StoreLocals(locals, i, step.locals)
        /\ searched' = [searched EXCEPT ![i] = step.searched]
        /\ result' = [result EXCEPT ![i] = step.result]
        /\ pc' = [pc EXCEPT ![i] =
                    IF step.send THEN "awaitSearch" ELSE PcOf(step.result)]
        /\ outstanding' = outstanding \cup (IF step.send THEN {<<i, "search">>} ELSE {})
        /\ requests' = [requests EXCEPT ![i]["search"] =
                          IF step.send THEN @ + 1 ELSE @]
    /\ UNCHANGED <<BRAVE_API_KEY, tz, scenario, tool, fresp, sresp, fetched>>

\* await fetch(url, ...) of the search endpoint settles and braveSearch() goes
\* on: on a rejection or a status that is not ok it ends; on an ok status it
\* calls response.json() and is suspended again.  The handler that awaits it
\* does not run in this step.
SearchResponds(i) ==
    /\ pc[i] = "awaitSearch"
    /\ <<i, "search">> \in outstanding
    /\ \E resp \in SearchSettles(scenario) :
        /\ sresp' = [sresp EXCEPT ![i] = resp]
        /\ outstanding' = outstanding \ {<<i, "search">>}
        /\ IF ReadsBody(resp)
           THEN /\ pc' = [pc EXCEPT ![i] = "awaitSearchBody"]
                /\ UNCHANGED searched
           ELSE /\ pc' = [pc EXCEPT ![i] = "searchReturned"]
                /\ searched' = [searched EXCEPT ![i] = braveSearch(resp)]
    /\ UNCHANGED <<BRAVE_API_KEY, tz, scenario, tool, fresp, fetched, locals,
                   result, requests>>

\* await response.json() of the search response settles, with the parsed body
\* or a rejection, and braveSearch() ends; the handler that awaits it does not
\* run in this step.
SearchBody(i) ==
    /\ pc[i] = "awaitSearchBody"
    /\ \E body \in SearchBodies(scenario) :
        \E resp \in {[sresp[i] EXCEPT !.body = body]} :
            /\ sresp' = [sresp EXCEPT ![i] = resp]
            /\ searched' = [searched EXCEPT ![i] = braveSearch(resp)]
    /\ pc' = [pc EXCEPT ![i] = "searchReturned"]
    /\ UNCHANGED <<BRAVE_API_KEY, tz, scenario, tool, fresp, fetched, locals,
                   result, outstanding, requests>>

\* The handler (or the caller of braveSearch) resumes from `await
\* braveSearch(...)` with what the function gave and runs to its return.
SearchResumes(i) ==
    /\ pc[i] = "searchReturned"
    /\ \E r \in {AfterSearch(tool[i], locals[i], searched[i])} :
        /\ result' = [result EXCEPT ![i] = r]
        /\ pc' = [pc EXCEPT ![i] =
                    IF searched[i].kind = "throw" THEN "thrown" ELSE "done"]
    /\ UNCHANGED <<BRAVE_API_KEY, tz, scenario, tool, fresp, sresp, fetched,
                   searched, locals, outstanding, requests>>

Next ==
    \/ \E i \in Inv : Invoke(i)
    \/ \E i \in Inv : ForecastResponds(i)
    \/ \E i \in Inv : ForecastBody(i)
    \/ \E i \in Inv : ForecastResumes(i)
    \/ \E i \in Inv : SearchResponds(i)
    \/ \E i \in Inv : SearchBody(i)
    \/ \E i \in Inv : SearchResumes(i)

NextForecast ==
    \/ \E i \in Inv : Invoke(i)
    \/ \E i \in Inv : ForecastResponds(i)
    \/ \E i \in Inv : ForecastBody(i)
    \/ \E i \in Inv : ForecastResumes(i)

Spec == InitFor("handlers") /\ [][Next]_vars
SpecConcurrent == InitFor("concurrent") /\ [][Next]_vars
SpecDays == InitFor("days") /\ [][NextForecast]_vars
SpecConditions == InitFor("conditions") /\ [][NextForecast]_vars
SpecRain == InitFor("rain") /\ [][NextForecast]_vars

---------------------------------------------------------------------------
(* Properties.                                                             *)

Ended(i) == pc[i] \in {"done", "thrown"}

\* The text of the single block the handler returned.
TextOf(i) == result[i].content[1].text

\* fetchHaldenForecast() gave invocation i a forecast (not null).
GotForecast(i) == fetched[i].kind = "return" /\ fetched[i].value # NULL

SeriesOf(i) == fetched[i].value.timeseries

FailureMessage(t) ==
    CASE t = "get-current-weather" -> CurrentWeatherFailure
      [] t = "suggest-activities" -> SuggestFailure
      [] OTHER -> ForecastFailure

BandMessages == {IndoorMessage, OutdoorMessage, ColdMessage, MildMessage}

RequestFailed(resp) ==
    resp.kind = "neterr" \/ (resp.kind = "http" /\ (~resp.ok \/ resp.body.type = "malformed"))

\* C1: whatever the forecast fetch gave (null, or a forecast with any number
\* of entries, zero included), each of the four forecast handlers ends by
\* returning exactly one text block and never by throwing: its fixed failure
\* message when the fetch failed or the series is empty, a formatted result
\* otherwise.
C1_HandlersAlwaysReturnOneBlock ==
    \A i \in Inv :
        (tool[i] \in ForecastTools /\ Ended(i)) =>
            /\ pc[i] = "done"
            /\ result[i].kind = "return"
            /\ Len(result[i].content) = 1
            /\ result[i].content[1].type = "text"
            /\ (TextOf(i) = FailureMessage(tool[i]))
                 <=> (~GotForecast(i) \/ SeriesOf(i) = << >>)

\* C2: fetchHaldenForecast never throws; a network error, a non-success status
\* or a malformed body gives null, and it gives back a forecast only when the
\* request succeeded and the body parsed, and then the parsed body.
C2_FetchNeverThrows ==
    \A i \in Inv :
        fetched[i].kind # "none" =>
            /\ fetched[i].kind = "return"
            /\ RequestFailed(fresp[i]) => fetched[i].value = NULL
            /\ fetched[i].value # NULL =>
                   /\ fresp[i].kind = "http" /\ fresp[i].ok
                   /\ fresp[i].body.type = "json"
                   /\ fetched[i].value = fresp[i].body

C2_Witness ==
    /\ fresp[1] = HttpResponse(200, Malformed)
    /\ fetched[1] = Returned(NULL)
    /\ pc[1] = "done"

\* The band message the priority order names for a first entry.
ExpectedBand(current) ==
    IF current.precipitation_amount # << >> /\ current.precipitation_amount[1] > 0
    THEN IndoorMessage
    ELSE IF current.air_temperature > 15 THEN OutdoorMessage
    ELSE IF current.air_temperature < 5 THEN ColdMessage
    ELSE MildMessage

\* C3: the output of activity-suggestions holds exactly one of the four band
\* messages, the one the priority order names (rain, then above 15, then below
\* 5, then mild), and the wind warning right after it exactly when the wind
\* speed is above 10, whichever band was chosen.
C3_BandAndWind ==
    \A i \in Inv :
        (tool[i] = "suggest-activities" /\ pc[i] = "done" /\ GotForecast(i)) =>
            LET current == SeriesOf(i)[1]
                text == TextOf(i)
            IN  /\ Cardinality({k \in 1..Len(text) : text[k] \in BandMessages}) = 1
                /\ text[3] = ExpectedBand(current)
                /\ (current.wind_speed > 10) <=> (\E k \in 1..Len(text) : text[k] = WindWarning)
                /\ (current.wind_speed > 10) => text[4] = WindWarning

C3_Witness ==
    /\ tool[1] = "suggest-activities" /\ pc[1] = "done" /\ GotForecast(1)
    /\ SeriesOf(1)[1].precipitation_amount = <<10>>
    /\ SeriesOf(1)[1].air_temperature = 16
    /\ SeriesOf(1)[1].wind_speed = 11
    /\ TextOf(1)[3] = IndoorMessage
    /\ TextOf(1)[4] = WindWarning

\* C4: without a search credential no request ever goes to the search
\* endpoint; braveSearch returns null at once, and activity-suggestions
\* returns its band message followed by the "enable search" hint.
C4_NoKeyNoSearchRequest ==
    ~Truthy(BRAVE_API_KEY) =>
        \A i \in Inv :
            /\ requests[i]["search"] = 0
            /\ <<i, "search">> \notin outstanding
            /\ pc[i] \notin {"awaitSearch", "awaitSearchBody", "searchReturned"}
            /\ tool[i] = "braveSearch" => (pc[i] = "done" /\ searched[i] = Returned(NULL))
            /\ (tool[i] = "suggest-activities" /\ Ended(i) /\ GotForecast(i)
                  /\ SeriesOf(i) # << >>) =>
                   /\ pc[i] = "done"
                   /\ TextOf(i)[3] \in BandMessages
                   /\ TextOf(i)[Len(TextOf(i))] = EnableSearchHint

C4_Witness ==
    /\ ~Truthy(BRAVE_API_KEY)
    /\ tool[1] = "suggest-activities" /\ pc[1] = "done" /\ GotForecast(1)
    /\ SeriesOf(1)[1].air_temperature = 16
    /\ SeriesOf(1)[1].precipitation_amount = << >>
    /\ SeriesOf(1)[1].wind_speed = 10
    /\ TextOf(1)[3] = OutdoorMessage
    /\ TextOf(1)[4] = EnableSearchHint

\* A request of invocation i to endpoint e is outstanding from its fetch() call
\* until its response is settled or, for an ok status, its body is read.
InProgress(i, e) ==
    \/ <<i, e>> \in outstanding
    \/ e = "forecast" /\ pc[i] = "awaitForecastBody"
    \/ e = "search" /\ pc[i] = "awaitSearchBody"

\* C5: one invocation sends at most one request to the forecast endpoint and
\* at most one to the search endpoint (no retry), never has both outstanding,
\* and a handler that fetches the forecast sends its search request only once
\* that fetch has ended, and never when it failed.
C5_OneRequestEachInSequence ==
    \A i \in Inv :
        /\ requests[i]["forecast"] <= 1
        /\ requests[i]["search"] <= 1
        /\ ~(InProgress(i, "forecast") /\ InProgress(i, "search"))
        /\ (tool[i] \in ForecastTools /\ requests[i]["search"] > 0) =>
               /\ requests[i]["forecast"] = 1
               /\ ~InProgress(i, "forecast")
               /\ GotForecast(i)
        /\ (tool[i] \in ForecastTools /\ fetched[i] = Returned(NULL)) =>
               /\ ~InProgress(i, "forecast")
               /\ ~InProgress(i, "search")
               /\ requests[i]["search"] = 0
               /\ pc[i] \in {"forecastReturned", "done"}

C5_Witness ==
    /\ tool[1] = "suggest-activities"
    /\ pc[1] = "awaitSearch"
    /\ requests[1] = [e \in {"forecast", "search"} |-> 1]
    /\ outstanding = {<<1, "search">>}

\* C6: with a credential, a failed search (network error, non-success status,
\* unparseable body) gives activity-suggestions the same output as a search
\* that succeeded with no results: header, band and wind messages, no venue
\* section, no hint; and the handler does not throw.
C6_SearchFailureIsNoResults ==
    \A i \in Inv :
        (tool[i] = "suggest-activities" /\ Truthy(BRAVE_API_KEY) /\ Ended(i)
           /\ sresp[i] # NoResponse /\ RequestFailed(sresp[i])) =>
            /\ pc[i] = "done"
            /\ result[i] = AfterSearch(tool[i], locals[i],
                                       braveSearch(HttpResponse(200, ResultSet(<< >>))))
            /\ Len(TextOf(i)) = 3 + Len(locals[i].suggestions)
            /\ TextOf(i)[3] \in BandMessages
            /\ TextOf(i)[Len(TextOf(i))] = Text("")

C6_Witness ==
    /\ tool[1] = "suggest-activities" /\ pc[1] = "done"
    /\ Truthy(BRAVE_API_KEY)
    /\ sresp[1] = NetworkError
    /\ TextOf(1) = << [msg |-> "Activity suggestions for Halden (C, m/s wind):",
                       temp |-> 4, wind |-> 11],
                      Text(""), ColdMessage, WindWarning, Text("") >>

---------------------------------------------------------------------------
(* Properties of the 3-day aggregation, stated on the series delivered and *)
(* the day lines of the text (its elements after the title and the blank). *)

ThreeDayDone(i) == tool[i] = "get-3day-forecast" /\ pc[i] = "done" /\ GotForecast(i)

DayLines(i) == SubSeq(TextOf(i), 3, Len(TextOf(i)))

DayKeys(ts) == {DayKeyOf(ts[j].time) : j \in 1..Len(ts)}

EntriesOf(ts, d) == {j \in 1..Len(ts) : DayKeyOf(ts[j].time) = d}

\* The index of the first entry of day d.
FirstSeen(ts, d) ==
    CHOOSE j \in 1..Len(ts) :
        DayKeyOf(ts[j].time) = d /\ \A m \in 1..(j - 1) : DayKeyOf(ts[m].time) # d

\* The k-th day key in order of first appearance.
KthDay(ts, k) ==
    CHOOSE d \in DayKeys(ts) :
        Cardinality({e \in DayKeys(ts) : FirstSeen(ts, e) < FirstSeen(ts, d)}) = k - 1

TempsOf(ts, d) == {ts[j].air_temperature : j \in EntriesOf(ts, d)}

\* Occurrences of code c among the entries of day d.
Occurrences(ts, d, c) == Cardinality({j \in EntriesOf(ts, d) : ts[j].symbol_code = c})

CodesOf(ts, d) == {ts[j].symbol_code : j \in EntriesOf(ts, d)} \ {<< >>}

RECURSIVE SumOver(_, _)
SumOver(ts, J) ==
    IF J = {} THEN 0
    ELSE LET j == CHOOSE x \in J : TRUE
             p == ts[j].precipitation_amount
         IN  (IF p = << >> THEN 0 ELSE p[1]) + SumOver(ts, J \ {j})

\* Total precipitation of day d, in 1/64 mm, absent amounts counted as 0.
TotalRain(ts, d) == SumOver(ts, EntriesOf(ts, d))

\* C7: the aggregation emits min(3, number of distinct UTC day keys) daily
\* summaries, one per day key, in the order the keys first appear, each with
\* the minimum and maximum temperature over exactly that day's entries.
C7_DaysInFirstSeenOrder ==
    \A i \in Inv :
        ThreeDayDone(i) =>
            LET ts == SeriesOf(i)
                lines == DayLines(i)
                n == Cardinality(DayKeys(ts))
            IN  /\ Len(lines) = (IF n < 3 THEN n ELSE 3)
                /\ \A k \in 1..Len(lines) : \A d \in {KthDay(ts, k)} :
                        /\ lines[k].dayName = DayName(d)
                        /\ lines[k].minTemp \in TempsOf(ts, d)
                        /\ lines[k].maxTemp \in TempsOf(ts, d)
                        /\ \A t \in TempsOf(ts, d) :
                               lines[k].minTemp <= t /\ t <= lines[k].maxTemp

\* Four days, the first three in an order that is not chronological, and the
\* first day seen again last with a lower temperature.
C7_Witness ==
    /\ ThreeDayDone(1)
    /\ Len(SeriesOf(1)) = 4
    /\ <<DayKeyOf(SeriesOf(1)[1].time), DayKeyOf(SeriesOf(1)[2].time),
         DayKeyOf(SeriesOf(1)[3].time), DayKeyOf(SeriesOf(1)[4].time)>> = <<2, 0, 3, 1>>
    /\ SeriesOf(1)[2].time = [wall |-> 25, offset |-> 2]
    /\ Len(DayLines(1)) = 3
    /\ <<DayLines(1)[1].dayName, DayLines(1)[2].dayName, DayLines(1)[3].dayName>> = <<2, 0, 3>>

\* C8: for every summarized day with at least one condition code, the code
\* behind the day's icon has the highest occurrence count among the day's
\* entries: no other code of the day occurs strictly more often.
C8_IconOfMostCommonCode ==
    \A i \in Inv :
        ThreeDayDone(i) =>
            LET ts == SeriesOf(i)
                lines == DayLines(i)
            IN  \A k \in 1..Len(lines) : \A d \in {KthDay(ts, k)} :
                        CodesOf(ts, d) # {} =>
                            \E c \in CodesOf(ts, d) :
                                /\ lines[k].icon = formatWeatherIcon(c)
                                /\ \A other \in CodesOf(ts, d) :
                                       Occurrences(ts, d, other) <= Occurrences(ts, d, c)

\* A day whose most frequent code is neither its first nor its last one.
C8_Witness ==
    /\ ThreeDayDone(1)
    /\ Len(SeriesOf(1)) = 5
    /\ [k \in 1..5 |-> SeriesOf(1)[k].symbol_code] = <<rain, fog, << >>, fog, cloudy>>
    /\ DayLines(1)[1].icon = "fog"

\* C9: a day's line carries the precipitation annotation when the day's total
\* precipitation is greater than 0 and none when the total is 0.
C9_RainShownIffTotalPositive ==
    \A i \in Inv :
        ThreeDayDone(i) =>
            \A k \in 1..Len(DayLines(i)) :
                (TotalRain(SeriesOf(i), KthDay(SeriesOf(i), k)) > 0)
                    <=> (DayLines(i)[k].rain # << >>)

---------------------------------------------------------------------------
(* Isolation of concurrent invocations.                                    *)

\* What tool t returns when it runs alone with forecast response fr and
\* search response sr (each read only if the handler gets that far).
Alone(t, fr, sr) ==
    IF t \in ForecastTools
    THEN LET step == AfterForecast(t, fetchHaldenForecast(fr), BRAVE_API_KEY)
         IN  IF step.send THEN AfterSearch(t, step.locals, braveSearch(sr))
             ELSE step.result
    ELSE IF ~Truthy(BRAVE_API_KEY) THEN ReturnText(SearchDisabled)
    ELSE AfterSearch(t, SearchLocals(CHOOSE q \in Queries : TRUE), braveSearch(sr))

\* C10: however the awaits of several invocations in flight interleave, what
\* each returns depends only on the responses delivered to it and on the
\* startup credential: it equals what it returns when run alone with them.
C10_InvocationsAreIsolated ==
    \A i \in Inv : Ended(i) => result[i] = Alone(tool[i], fresp[i], sresp[i])

\* Invocation 2 got its forecast and its search results while invocation 1,
\* started on another forecast, is suspended between the status and the body
\* of its search response.
C10_Witness ==
    /\ tool[1] = "suggest-activities" /\ tool[2] = "suggest-activities"
    /\ pc[1] = "awaitSearchBody" /\ pc[2] = "done"
    /\ fresp[1] # fresp[2]
    /\ sresp[2] = HttpResponse(200, ResultSet(<<Place1, Place2>>))
    /\ locals[1].temp = 18 /\ locals[2].temp = 3

============================================================================
